---- MODULE Spec2Model ----
(***************************************************************************)
(* dt-server: a mutable user store next to an append-only log of change   *)
(* events, and the reconstruction of a user by replaying the JSON patches *)
(* of a chain of events (src/main.go).                                    *)
(*                                                                         *)
(* JSON documents are modelled as trees of depth two over the keys of the *)
(* User and Backpack structs; a scalar is held as its JSON text, so that  *)
(* json.Marshal / json.Unmarshal are real conversions.  An RFC 6901 path  *)
(* is a sequence of one-character strings, so that the slicing done by    *)
(* skipAndConvert is modelled as the code does it.                        *)
(***************************************************************************)
EXTENDS Integers, Sequences, FiniteSets, TLC

\* ------------------------------------------------------------------ bounds
MaxEvents == 2          \* updates accepted before the model stops appending

GlobalShiftAfter == 5   \* addEvent: "if len(events) > 5"

UserIds == {1, 2}       \* ids offered to updateUser
EntityIds == UserIds \cup {0}   \* ids offered to getPatched; 0 is never stored

\* ------------------------------------------------------------- Go values
Absent == ""            \* no JSON text: the key is not in the object

\* Backpack behind the *Backpack pointer; nil = TRUE is the nil pointer
NilBag == [nil |-> TRUE, Phone |-> "", Food |-> "", Gun |-> ""]

Backpack(phone, food, gun) ==
    [nil |-> FALSE, Phone |-> phone, Food |-> food, Gun |-> gun]

\* the zero User, what &User{} is before Bind / Unmarshal fill it
User == [ID |-> 0, Name |-> "", Age |-> 0, Bag |-> NilBag, IsAdult |-> FALSE]

\* a *User: nil = TRUE is the nil pointer (users[id] of an absent id)
NilUser == [nil |-> TRUE, u |-> User]

Ptr(u) == [nil |-> FALSE, u |-> u]

\* ----------------------------------------------------------- JSON values
TopKeys == {"id", "name", "age", "is_adult"}
BagKeys == {"phone", "food", "gun"}
FieldKeys == TopKeys \cup BagKeys

NoFields == [k \in FieldKeys |-> Absent]

\* kind "empty" | "null" | "scalar" | "object"; s: the text of a scalar; f: the scalar
\* members of an object; hasBag/bag: the member "bag" of an object
JNull == [kind |-> "null", s |-> Absent, f |-> NoFields, hasBag |-> FALSE, bag |-> NoFields]

\* no bytes at all: make([]byte, 0), which is not a JSON text
JEmpty == [kind |-> "empty", s |-> Absent, f |-> NoFields, hasBag |-> FALSE, bag |-> NoFields]

JScalar(text) == [kind |-> "scalar", s |-> text, f |-> NoFields, hasBag |-> FALSE, bag |-> NoFields]

JObject(f, hasBag, bag) == [kind |-> "object", s |-> Absent, f |-> f, hasBag |-> hasBag, bag |-> bag]

\* strconv of the integers the model uses
NumText(n) ==
    CASE n = 0 -> "0" [] n = 1 -> "1" [] n = 2 -> "2" [] n = 3 -> "3"
      [] n = 16 -> "16" [] n = 17 -> "17" [] n = 18 -> "18" [] n = 19 -> "19"
      [] OTHER -> "?"

Nums == {0, 1, 2, 3, 16, 17, 18, 19}

TextNum(t) == IF \E n \in Nums : NumText(n) = t THEN CHOOSE n \in Nums : NumText(n) = t ELSE 0

\* a Go string as a JSON string literal, and back
Names == {"John", "Poco F3", "Mi 11", "Big tasty", "Beretta"}

Quote(str) ==
    CASE str = "John" -> "\"John\"" [] str = "Poco F3" -> "\"Poco F3\""
      [] str = "Mi 11" -> "\"Mi 11\"" [] str = "Big tasty" -> "\"Big tasty\""
      [] str = "Beretta" -> "\"Beretta\"" [] OTHER -> "\"\""

Unquote(t) == IF \E n \in Names : Quote(n) = t THEN CHOOSE n \in Names : Quote(n) = t ELSE ""

\* json.Marshal of a Backpack: every field is omitempty
MarshalBag(b) ==
    [k \in FieldKeys |->
        CASE k = "phone" /\ b.Phone # "" -> Quote(b.Phone)
          [] k = "food" /\ b.Food # "" -> Quote(b.Food)
          [] k = "gun" /\ b.Gun # "" -> Quote(b.Gun)
          [] OTHER -> Absent]

\* json.Marshal of a *User: null for the nil pointer, else the object without
\* its zero-valued (omitempty) fields
Marshal(p) ==
    IF p.nil THEN JNull
    ELSE JObject(
        [k \in FieldKeys |->
            CASE k = "id" /\ p.u.ID # 0 -> NumText(p.u.ID)
              [] k = "name" /\ p.u.Name # "" -> Quote(p.u.Name)
              [] k = "age" /\ p.u.Age # 0 -> NumText(p.u.Age)
              [] k = "is_adult" /\ p.u.IsAdult -> "true"
              [] OTHER -> Absent],
        ~p.u.Bag.nil,
        IF p.u.Bag.nil THEN NoFields ELSE MarshalBag(p.u.Bag))

\* the User json.Unmarshal fills from an object: absent keys keep the zero value
Decoded(doc) ==
         [ID |-> IF doc.f["id"] = Absent THEN 0 ELSE TextNum(doc.f["id"]),
          Name |-> IF doc.f["name"] = Absent THEN "" ELSE Unquote(doc.f["name"]),
          Age |-> IF doc.f["age"] = Absent THEN 0 ELSE TextNum(doc.f["age"]),
          Bag |-> IF ~doc.hasBag THEN NilBag
                  ELSE Backpack(Unquote(doc.bag["phone"]), Unquote(doc.bag["food"]),
                                Unquote(doc.bag["gun"])),
          IsAdult |-> doc.f["is_adult"] = "true"]

\* json.Unmarshal into a fresh &User{}: an error for no input, the zero User
\* for null
Unmarshal(doc) ==
    CASE doc.kind = "object" -> [ok |-> TRUE, u |-> Decoded(doc)]
      [] doc.kind = "null" -> [ok |-> TRUE, u |-> User]
      [] OTHER -> [ok |-> FALSE, u |-> User]

\* ------------------------------------------------------------ JSON paths
\* the characters of a key
Chars(k) ==
    CASE k = "id" -> <<"i", "d">>
      [] k = "name" -> <<"n", "a", "m", "e">>
      [] k = "age" -> <<"a", "g", "e">>
      [] k = "is_adult" -> <<"i", "s", "_", "a", "d", "u", "l", "t">>
      [] k = "bag" -> <<"b", "a", "g">>
      [] k = "phone" -> <<"p", "h", "o", "n", "e">>
      [] k = "food" -> <<"f", "o", "o", "d">>
      [] k = "gun" -> <<"g", "u", "n">>
      [] OTHER -> <<"?">>

Keys == FieldKeys \cup {"bag"}

RootPath == <<>>

TopPath(k) == <<"/">> \o Chars(k)

BagPath(k) == TopPath("bag") \o <<"/">> \o Chars(k)

\* strings.Split(path, "/"): the segments between the slashes
RECURSIVE Split(_)
Split(path) ==
    IF \A i \in 1..Len(path) : path[i] # "/" THEN <<path>>
    ELSE LET i == CHOOSE j \in 1..Len(path) :
                      path[j] = "/" /\ \A h \in 1..(j - 1) : path[h] # "/"
         IN <<SubSeq(path, 1, i - 1)>> \o Split(SubSeq(path, i + 1, Len(path)))

SegKey(seg) == IF \E k \in Keys : Chars(k) = seg THEN CHOOSE k \in Keys : Chars(k) = seg ELSE "?"

\* ---------------------------------------------- jsondiff (Invertible patch)
Op(kind, path, value) == [op |-> kind, path |-> path, value |-> value]

\* the order compareObjects visits the keys in: sorted
TopOrder == <<"age", "bag", "id", "is_adult", "name">>
BagOrder == <<"food", "gun", "phone">>

\* one scalar member, a in the source and b in the target (Absent: no member)
FieldOps(ptr, a, b) ==
    CASE a = b -> <<>>
      [] a = Absent /\ b # Absent -> <<Op("add", ptr, JScalar(b))>>
      [] a # Absent /\ b = Absent -> <<Op("test", ptr, JScalar(a)), Op("remove", ptr, JNull)>>
      [] OTHER -> <<Op("test", ptr, JScalar(a)), Op("replace", ptr, JScalar(b))>>

RECURSIVE BagMemberOps(_, _, _)
BagMemberOps(order, a, b) ==
    IF order = <<>> THEN <<>>
    ELSE FieldOps(BagPath(Head(order)), a[Head(order)], b[Head(order)])
         \o BagMemberOps(Tail(order), a, b)

\* the member "bag" of two objects
BagOps(src, tgt) ==
    CASE ~src.hasBag /\ ~tgt.hasBag -> <<>>
      [] src.hasBag /\ tgt.hasBag -> BagMemberOps(BagOrder, src.bag, tgt.bag)
      [] src.hasBag /\ ~tgt.hasBag ->
            <<Op("test", TopPath("bag"), JObject(src.bag, FALSE, NoFields)),
              Op("remove", TopPath("bag"), JNull)>>
      [] OTHER -> <<Op("add", TopPath("bag"), JObject(tgt.bag, FALSE, NoFields))>>

RECURSIVE ObjectOps(_, _, _)
ObjectOps(order, src, tgt) ==
    IF order = <<>> THEN <<>>
    ELSE (IF Head(order) = "bag" THEN BagOps(src, tgt)
          ELSE FieldOps(TopPath(Head(order)), src.f[Head(order)], tgt.f[Head(order)]))
         \o ObjectOps(Tail(order), src, tgt)

\* jsondiff.CompareJSONOpts(before, after, jsondiff.Invertible())
createPatch(before, after) ==
    CASE before = after -> <<>>
      [] before.kind = "object" /\ after.kind = "object" -> ObjectOps(TopOrder, before, after)
      [] OTHER -> <<Op("test", RootPath, before), Op("replace", RootPath, after)>>

\* extractDiffs: the rollback patch and the update patch of a mutation
extractDiffs(oldData, newData) ==
    [rollback |-> createPatch(Marshal(newData), Marshal(oldData)),
     update |-> createPatch(Marshal(oldData), Marshal(newData))]

\* ------------------------------------------------- jsonpatch (Patch.Apply)
\* findObject, from the segments of the path: the container an operation
\* acts in and the key in it
FindIn(doc, split) ==
    CASE Len(split) < 2 \/ doc.kind # "object" -> [ok |-> FALSE, in |-> "", key |-> ""]
      [] Len(split) = 2 -> [ok |-> TRUE, in |-> "top", key |-> SegKey(split[2])]
      [] Len(split) = 3 /\ SegKey(split[2]) = "bag" /\ doc.hasBag ->
            [ok |-> TRUE, in |-> "bag", key |-> SegKey(split[3])]
      [] OTHER -> [ok |-> FALSE, in |-> "", key |-> ""]

FindObject(doc, path) == FindIn(doc, Split(path))

Has(doc, at) ==
    CASE at.in = "top" /\ at.key = "bag" -> doc.hasBag
      [] at.in = "top" /\ at.key \in FieldKeys -> doc.f[at.key] # Absent
      [] at.in = "bag" /\ at.key \in FieldKeys -> doc.bag[at.key] # Absent
      [] OTHER -> FALSE

Get(doc, at) ==
    CASE at.in = "top" /\ at.key = "bag" -> JObject(doc.bag, FALSE, NoFields)
      [] at.in = "top" -> JScalar(doc.f[at.key])
      [] OTHER -> JScalar(doc.bag[at.key])

\* the values the model's documents can hold at a key: an object at "bag",
\* a scalar elsewhere (jsondiff of two Users produces no other)
Fits(at, value) ==
    CASE at.in = "top" /\ at.key = "bag" -> value.kind = "object" /\ ~value.hasBag
      [] at.key \in FieldKeys -> value.kind = "scalar"
      [] OTHER -> FALSE

Set(doc, at, value) ==
    CASE at.in = "top" /\ at.key = "bag" -> [doc EXCEPT !.hasBag = TRUE, !.bag = value.f]
      [] at.in = "top" -> [doc EXCEPT !.f[at.key] = value.s]
      [] OTHER -> [doc EXCEPT !.bag[at.key] = value.s]

Delete(doc, at) ==
    CASE at.in = "top" /\ at.key = "bag" -> [doc EXCEPT !.hasBag = FALSE, !.bag = NoFields]
      [] at.in = "top" -> [doc EXCEPT !.f[at.key] = Absent]
      [] OTHER -> [doc EXCEPT !.bag[at.key] = Absent]

Failed(doc) == [ok |-> FALSE, doc |-> doc]

Done(doc) == [ok |-> TRUE, doc |-> doc]

\* one operation against the document, the place it acts at being found
ApplyAt(doc, o, at) ==
    CASE ~at.ok -> Failed(doc)
      [] o.op = "add" -> IF Fits(at, o.value) THEN Done(Set(doc, at, o.value)) ELSE Failed(doc)
      [] o.op = "remove" -> IF Has(doc, at) THEN Done(Delete(doc, at)) ELSE Failed(doc)
      [] o.op = "replace" ->
            IF Has(doc, at) /\ Fits(at, o.value) THEN Done(Set(doc, at, o.value))
            ELSE Failed(doc)
      [] o.op = "test" ->
            IF (~Has(doc, at) /\ o.value.kind = "null")
               \/ (Has(doc, at) /\ Get(doc, at) = o.value)
            THEN Done(doc) ELSE Failed(doc)
      [] OTHER -> Failed(doc)

\* one operation of a patch against the current intermediate document
ApplyOp(doc, o) == ApplyAt(doc, o, FindObject(doc, o.path))

\* Patch.Apply: the operations in sequence, each against the document the
\* one before left; the first failure fails the call
RECURSIVE ApplyFrom(_, _, _)
ApplyFrom(entity, patch, r) ==
    CASE ~r.ok -> Failed(entity)
      [] patch = <<>> -> r
      [] OTHER -> ApplyFrom(entity, Tail(patch), ApplyOp(r.doc, Head(patch)))

\* applyPatch
applyPatch(entity, patch) == ApplyFrom(entity, patch, Done(entity))

\* ------------------------------------------------------------------ state
VARIABLES
    users,      \* the store: id -> User, for the ids that are stored
    events,     \* the log
    global,     \* the clock addEvent stamps events with, in days since start
    mutations,  \* per event, the entity and the states it went from and to
    resp,       \* what the last request returned
    sanIn,      \* a patch handed to skipAndConvert on its own
    sanOut,     \* what skipAndConvert made of sanIn
    sanAgain,   \* what skipAndConvert made of sanOut
    running,    \* per updateUser call in flight, where it is and its locals
    reading     \* the getPatched call in flight, where it is and its locals

vars == <<users, events, global, mutations, resp, sanIn, sanOut, sanAgain, running, reading>>

John == [ID |-> 1, Name |-> "John", Age |-> 16,
         Bag |-> Backpack("Poco F3", "Big tasty", "Beretta"), IsAdult |-> FALSE]

InitialIds == {1}

RollbackType == "rollback"
UpdateType == "update"
PatchTypes == {RollbackType, UpdateType, "other"}

Body(id, age, bag) == [ID |-> id, Name |-> "John", Age |-> age, Bag |-> bag, IsAdult |-> FALSE]

FullBag == Backpack("Poco F3", "Big tasty", "Beretta")
OtherBag == Backpack("Mi 11", "", "Beretta")

\* the bodies updateUser is offered: user 1 with its age set, changed and
\* cleared, its bag kept, dropped and changed; user 2 created and changed
Bodies ==
    {Body(1, a, FullBag) : a \in {0, 16, 17}}
    \cup {Body(1, 16, NilBag), Body(1, 16, OtherBag), Body(1, 17, OtherBag)}
    \cup {Body(i, 16, NilBag) : i \in UserIds \ InitialIds}
    \cup {Body(i, 17, FullBag) : i \in UserIds \ InitialIds}

EventIds == (0 - 1)..(MaxEvents + 1)

\* --------------------------------------------------------------- the log
Event(id, createdAt, rollback, update) ==
    [ID |-> id, CreatedAt |-> createdAt, Initiator |-> "admin", Subject |-> "some_user",
     Action |-> "user_update", Rollback |-> rollback, Update |-> update]

\* the id taken as the length of the log before the append, without the + 1
NextId_FromZero(evs) == Len(evs)

\* addEvent: the id it assigns
NextId(evs) == Len(evs) + 1

\* the clock set back a day instead of forward
NextGlobal_Backwards(evs, g) == IF Len(evs) > GlobalShiftAfter THEN g - 1 ELSE g

\* addEvent: the clock after the "len(events) > 5" step
NextGlobal(evs, g) == IF Len(evs) > GlobalShiftAfter THEN g + 1 ELSE g

\* the event put in front of the log instead of behind it
addEvent_Prepend(evs, g, oldData, newData) ==
    <<Event(Len(evs) + 1, g, extractDiffs(oldData, newData).rollback,
            extractDiffs(oldData, newData).update)>> \o evs

\* addEvent: the log after the append
addEvent(evs, g, oldData, newData) ==
    Append(evs, Event(NextId(evs), NextGlobal(evs, g),
                      extractDiffs(oldData, newData).rollback,
                      extractDiffs(oldData, newData).update))

\* getUser
getUser(id) == IF id \in DOMAIN users THEN Ptr(users[id]) ELSE NilUser

\* the range check left out: events[id:] panics beyond the log
getEvents_NoRangeCheck(id) ==
    IF id < 0 \/ id > Len(events) THEN [status |-> "panic", events |-> <<>>]
    ELSE [status |-> "ok", events |-> SubSeq(events, id + 1, Len(events))]

\* getEvents: "ok" with events[id:], "err", or "panic" for a negative index
getEvents(id) ==
    CASE id <= Len(events) - 1 /\ id < 0 -> [status |-> "panic", events |-> <<>>]
      [] id <= Len(events) - 1 -> [status |-> "ok", events |-> SubSeq(events, id + 1, Len(events))]
      [] OTHER -> [status |-> "err", events |-> <<>>]

\* ------------------------------------------------------------ the replay
\* nothing skipped: the patch converted as it is stored
skipAndConvert_KeepAll(value) == [status |-> "ok", patch |-> value]

\* only the operation on /bag itself skipped, the ones below /bag kept
skipAndConvert_OnlyBagItself(value) ==
    IF \E i \in 1..Len(value) : Len(value[i].path) < Len(<<"/">> \o Chars("bag"))
    THEN [status |-> "panic", patch |-> <<>>]
    ELSE [status |-> "ok", patch |-> SelectSeq(value, LAMBDA o : o.path # <<"/">> \o Chars("bag"))]

\* one pass drops the first operation it finds under /bag and keeps the rest
skipAndConvert_DropsFirstOnly(value) ==
    IF \E i \in 1..Len(value) : Len(value[i].path) < Len(TopPath("bag"))
    THEN [status |-> "panic", patch |-> <<>>]
    ELSE LET hits == {i \in 1..Len(value) : SubSeq(value[i].path, 2, Len(TopPath("bag"))) = Chars("bag")}
             first == CHOOSE i \in hits : \A j \in hits : i <= j
         IN  [status |-> "ok",
              patch |-> IF hits = {} THEN value
                        ELSE SubSeq(value, 1, first - 1) \o SubSeq(value, first + 1, Len(value))]

\* skipAndConvert: the operations kept; slicing Path[1:4] of a path shorter
\* than 4 characters panics
skipAndConvert(value) ==
    IF \E i \in 1..Len(value) : Len(value[i].path) < Len(TopPath("bag"))
    THEN [status |-> "panic", patch |-> <<>>]
    ELSE [status |-> "ok",
          patch |-> SelectSeq(value, LAMBDA o : SubSeq(o.path, 2, Len(TopPath("bag"))) # Chars("bag"))]

convertToPatch(value) == skipAndConvert(value)

getRequiredPatch(e, patchType) ==
    CASE patchType = RollbackType -> [status |-> "ok", patch |-> e.Rollback]
      [] patchType = UpdateType -> [status |-> "ok", patch |-> e.Update]
      [] OTHER -> [status |-> "err", patch |-> <<>>]

\* the state of the loop after an iteration: its status and document, the
\* events visited and the patches applied so far
Step(r, id, s) ==
    [status |-> s.status, doc |-> s.doc, visited |-> Append(r.visited, id),
     applied |-> IF s.status = "ok" THEN Append(r.applied, s.applied) ELSE r.applied]

\* patch, after getRequiredPatch and convertToPatch: applyPatch
Patched(source, p, applied) ==
    IF applied.ok THEN [status |-> "ok", doc |-> applied.doc, applied |-> p]
    ELSE [status |-> "err", doc |-> source, applied |-> p]

\* patch, after getRequiredPatch: convertToPatch
Converted(source, p) ==
    IF p.status = "ok" THEN Patched(source, p.patch, applyPatch(source, p.patch))
    ELSE [status |-> p.status, doc |-> source, applied |-> <<>>]

\* patch, from what getRequiredPatch returned
Required(source, required) ==
    IF required.status = "ok" THEN Converted(source, convertToPatch(required.patch))
    ELSE [status |-> "err", doc |-> source, applied |-> <<>>]

\* patch: one event's patch of the asked type applied to source
patch(e, patchType, source) == Required(source, getRequiredPatch(e, patchType))

\* the loop of getPatched: i runs from len(requiredEvents)-1 down to 0 (here
\* from Len down to 1); the first iteration takes serialized as its source;
\* r is what the iteration before returned
RECURSIVE Fold(_, _, _, _, _)
Fold(chain, i, patchType, serialized, r) ==
    CASE r.status # "ok" -> r
      [] i < 1 -> r
      [] OTHER ->
            Fold(chain, i - 1, patchType, serialized,
                 Step(r, chain[i].ID,
                      patch(chain[i], patchType,
                            IF i = Len(chain) THEN serialized ELSE r.doc)))

\* list: the events getEventsList returned, filter: the time it was asked for
NoResp ==
    [handler |-> "none", patchType |-> "", eventID |-> 0, entityID |-> 0, status |-> "",
     user |-> NilUser, start |-> JNull, visited |-> <<>>, applied |-> <<>>,
     filter |-> 0, list |-> <<>>]

\* getPatched: status "ok" with the patched user, "err" with nil, or "panic";
\* start is the document the fold began from, visited the ids of the events
\* in the order their patches were taken, applied the patches applied
\* the value patched so far returned next to the error of the loop
Folded_ReturnsPartial(call, serialized, r, patched) ==
    CASE r.status # "ok" ->
            [call EXCEPT !.status = r.status, !.user = Ptr(patched.u), !.start = serialized,
                         !.visited = r.visited, !.applied = r.applied]
      [] ~patched.ok -> [call EXCEPT !.status = "err"]
      [] OTHER ->
            [call EXCEPT !.status = "ok", !.user = Ptr(patched.u), !.start = serialized,
                         !.visited = r.visited, !.applied = r.applied]

\* getPatched, after the loop: json.Unmarshal of the folded document
Folded(call, serialized, r, patched) ==
    CASE r.status # "ok" ->
            [call EXCEPT !.status = r.status, !.start = serialized,
                         !.visited = r.visited, !.applied = r.applied]
      [] ~patched.ok -> [call EXCEPT !.status = "err"]
      [] OTHER ->
            [call EXCEPT !.status = "ok", !.user = Ptr(patched.u), !.start = serialized,
                         !.visited = r.visited, !.applied = r.applied]

\* getPatched, from what the loop left in source
Replayed(call, serialized, r) == Folded(call, serialized, r, Unmarshal(r.doc))

\* getPatched, after getUser and getEvents: the loop over the chain, source
\* being make([]byte, 0) before it
Chained(call, patchType, chain, serialized) ==
    Replayed(call, serialized,
             Fold(chain, Len(chain), patchType, serialized,
                  [status |-> "ok", doc |-> JEmpty, visited |-> <<>>, applied |-> <<>>]))

\* getPatched, from what getUser and getEvents returned
Fetched(call, patchType, u, requiredEvents) ==
    CASE u.nil -> [call EXCEPT !.status = "err"]
      [] requiredEvents.status # "ok" -> [call EXCEPT !.status = requiredEvents.status]
      [] OTHER -> Chained(call, patchType, requiredEvents.events, Marshal(u))

getPatched(patchType, eventID, entityID) ==
    Fetched([NoResp EXCEPT !.handler = "getPatched", !.patchType = patchType,
                           !.eventID = eventID, !.entityID = entityID],
            patchType, getUser(entityID), getEvents(eventID))

\* ------------------------------------------------------- the events list
\* what time.Parse(time.RFC3339, ...) makes of the created_at filter: a time
\* in days since the start, or an error (also for the absent parameter)
ParseError == [ok |-> FALSE, t |-> 0]

Parsed(t) == [ok |-> TRUE, t |-> t]

\* the reverse comparison: the events after the date skipped
Before_After(t, d) == t > d

\* time.Time.Before
Before(t, d) == t < d

\* getEventsList: the loop over events, skipping the ones created before date
RECURSIVE Listed(_, _, _)
Listed(evs, date, eventsList) ==
    CASE evs = <<>> -> eventsList
      [] Before(Head(evs).CreatedAt, date) -> Listed(Tail(evs), date, eventsList)
      [] OTHER -> Listed(Tail(evs), date, Append(eventsList, Head(evs)))

getEventsList(date) ==
    IF ~date.ok THEN [NoResp EXCEPT !.handler = "getEventsList", !.status = "err"]
    ELSE [NoResp EXCEPT !.handler = "getEventsList", !.status = "ok", !.filter = date.t,
                        !.list = Listed(events, date.t, <<>>)]

NoSan == [status |-> "", patch |-> <<>>]

\* ------------------------------------------------- handlers in flight
NumProcs == 2           \* updateUser calls that run at the same time

Procs == 1..NumProcs

\* an updateUser call: u the bound body, old the user it replaced, event the
\* event it built, evs the log as append read it
Idle == [pc |-> "idle", u |-> John, old |-> NilUser, event |-> Event(0, 0, <<>>, <<>>), evs |-> <<>>]

\* a getPatched call: u what getUser returned; stores and logged count the
\* store writes made when u was read and the events in the log when
\* getEvents read it
NotReading == [pc |-> "idle", patchType |-> "", eventID |-> 0, entityID |-> 0, u |-> NilUser,
               stores |-> 0, logged |-> 0]

\* ---------------------------------------------------------------- actions
Init ==
    /\ users = [i \in InitialIds |-> John]
    /\ events = <<>>
    /\ global = 0
    /\ mutations = <<>>
    /\ resp = NoResp
    /\ sanIn = <<>>
    /\ sanOut = NoSan
    /\ sanAgain = NoSan
    /\ running = [p \in Procs |-> Idle]
    /\ reading = NotReading

\* updateUser with body u bound: the store replaced, the event appended
Update(u) ==
    /\ users' = [i \in DOMAIN users \cup {u.ID} |-> IF i = u.ID THEN u ELSE users[i]]
    /\ events' = addEvent(events, global, getUser(u.ID), Ptr(u))
    /\ global' = NextGlobal(events, global)
    /\ mutations' = Append(mutations, [id |-> u.ID, old |-> getUser(u.ID), new |-> Ptr(u)])
    /\ resp' = [NoResp EXCEPT !.handler = "updateUser", !.status = "ok", !.entityID = u.ID]
    /\ UNCHANGED <<sanIn, sanOut, sanAgain, running, reading>>

\* PUT /user/update/:id with body u
updateUser(u) ==
    /\ Len(events) < MaxEvents
    /\ Update(u)

\* the created_at filters offered to GET /events
Filters == {ParseError} \cup {Parsed(d) : d \in (0 - 1)..1}

\* GET /events?created_at=...
eventsList(date) ==
    /\ resp' = getEventsList(date)
    /\ UNCHANGED <<users, events, global, mutations, sanIn, sanOut, sanAgain, running, reading>>

\* GET /patch/:patch_type/:event_id/:entity_id
getPatchedByEventID(patchType, eventID, entityID) ==
    /\ resp' = getPatched(patchType, eventID, entityID)
    /\ UNCHANGED <<users, events, global, mutations, sanIn, sanOut, sanAgain, running, reading>>

Next ==
    \/ \E u \in Bodies : updateUser(u)
    \/ \E t \in PatchTypes, e \in EventIds, x \in EntityIds : getPatchedByEventID(t, e, x)
    \/ \E d \in Filters : eventsList(d)

Spec == Init /\ [][Next]_vars

\* ------------------------------------- a log long enough for the clock to move
MaxLogEvents == 7       \* updates accepted before this model stops appending

\* the bodies offered: user 1 with its age changed
LogBodies == {Body(1, a, FullBag) : a \in {16, 17}}

\* the created_at filters offered: before, at and after every stamp reached
LogFilters == {ParseError} \cup {Parsed(d) : d \in (0 - 1)..(MaxLogEvents - GlobalShiftAfter)}

updateUserLog(u) ==
    /\ Len(events) < MaxLogEvents
    /\ Update(u)

NextLog ==
    \/ \E u \in LogBodies : updateUserLog(u)
    \/ \E d \in LogFilters : eventsList(d)

SpecLog == Init /\ [][NextLog]_vars

\* ------------------------------------- handlers interleaved, no lock taken
\* the bodies offered: user 1 with its age changed
ConcBodies == {Body(1, a, FullBag) : a \in {17, 18}}

\* updateUser, lines 221-228: the body bound, the stored user read and replaced
Store(p, u) ==
    /\ running[p].pc = "idle"
    /\ users' = [i \in DOMAIN users \cup {u.ID} |-> IF i = u.ID THEN u ELSE users[i]]
    /\ mutations' = Append(mutations, [id |-> u.ID, old |-> getUser(u.ID), new |-> Ptr(u)])
    /\ running' = [running EXCEPT ![p] = [@ EXCEPT !.pc = "stored", !.u = u, !.old = getUser(u.ID)]]
    /\ UNCHANGED <<events, global, resp, sanIn, sanOut, sanAgain, reading>>

\* addEvent, lines 126-145: the diffs, the id from len(events), the clock, the event
Number(p) ==
    /\ running[p].pc = "stored"
    /\ global' = NextGlobal(events, global)
    /\ running' = [running EXCEPT ![p] =
                     [@ EXCEPT !.pc = "numbered",
                               !.event = Event(NextId(events), NextGlobal(events, global),
                                               extractDiffs(running[p].old, Ptr(running[p].u)).rollback,
                                               extractDiffs(running[p].old, Ptr(running[p].u)).update)]]
    /\ UNCHANGED <<users, events, mutations, resp, sanIn, sanOut, sanAgain, reading>>

\* addEvent, line 147: append reads the slice events
Load(p) ==
    /\ running[p].pc = "numbered"
    /\ running' = [running EXCEPT ![p] = [@ EXCEPT !.pc = "loaded", !.evs = events]]
    /\ UNCHANGED <<users, events, global, mutations, resp, sanIn, sanOut, sanAgain, reading>>

\* addEvent, line 147: the slice append made is assigned to events
Publish(p) ==
    /\ running[p].pc = "loaded"
    /\ events' = Append(running[p].evs, running[p].event)
    /\ running' = [running EXCEPT ![p] = [@ EXCEPT !.pc = "done"]]
    /\ resp' = [NoResp EXCEPT !.handler = "updateUser", !.status = "ok", !.entityID = running[p].u.ID]
    /\ UNCHANGED <<users, global, mutations, sanIn, sanOut, sanAgain, reading>>

\* getPatched, line 240: getUser; a missing user ends the call
ReadUser(patchType, eventID, entityID) ==
    /\ reading.pc = "idle"
    /\ reading' = [pc |-> IF getUser(entityID).nil THEN "done" ELSE "user",
                   patchType |-> patchType, eventID |-> eventID, entityID |-> entityID,
                   u |-> getUser(entityID), stores |-> Len(mutations), logged |-> 0]
    /\ resp' = IF getUser(entityID).nil
               THEN [NoResp EXCEPT !.handler = "getPatched", !.patchType = patchType,
                                   !.eventID = eventID, !.entityID = entityID, !.status = "err"]
               ELSE resp
    /\ UNCHANGED <<users, events, global, mutations, sanIn, sanOut, sanAgain, running>>

\* getPatched, lines 244-272: getEvents and the replay from the user read before
ReadEvents ==
    /\ reading.pc = "user"
    /\ reading' = [reading EXCEPT !.pc = "done", !.logged = Len(events)]
    /\ resp' = Fetched([NoResp EXCEPT !.handler = "getPatched", !.patchType = reading.patchType,
                                      !.eventID = reading.eventID, !.entityID = reading.entityID],
                       reading.patchType, reading.u, getEvents(reading.eventID))
    /\ UNCHANGED <<users, events, global, mutations, sanIn, sanOut, sanAgain, running>>

NextConc ==
    \/ \E p \in Procs, u \in ConcBodies : Store(p, u)
    \/ \E p \in Procs : Number(p)
    \/ \E p \in Procs : Load(p)
    \/ \E p \in Procs : Publish(p)
    \/ \E t \in {RollbackType, UpdateType}, e \in 0..NumProcs, x \in EntityIds : ReadUser(t, e, x)
    \/ ReadEvents

SpecConc == Init /\ [][NextConc]_vars

\* ------------------------------------------- skipAndConvert on its own
MaxPatchLen == 2        \* the longest patch handed to skipAndConvert

\* paths under /bag, beside /bag, and too short to slice
SanPaths ==
    {TopPath("bag"), BagPath("phone"), TopPath("age"), TopPath("name"), TopPath("id"),
     RootPath, <<"/", "b", "a", "g", "e", "l">>, <<"/", "b", "a">>}

SanOps ==
    {Op("replace", p, JScalar("1")) : p \in SanPaths}
    \cup {Op("remove", p, JNull) : p \in SanPaths}

SanPatches == UNION {[1..n -> SanOps] : n \in 0..MaxPatchLen}

InitSan ==
    /\ users = [i \in InitialIds |-> John]
    /\ events = <<>>
    /\ global = 0
    /\ mutations = <<>>
    /\ resp = NoResp
    /\ sanIn \in SanPatches
    /\ sanOut = NoSan
    /\ sanAgain = NoSan
    /\ running = [p \in Procs |-> Idle]
    /\ reading = NotReading

\* skipAndConvert(sanIn)
Sanitize ==
    /\ sanOut = NoSan
    /\ sanOut' = skipAndConvert(sanIn)
    /\ UNCHANGED <<users, events, global, mutations, resp, sanIn, sanAgain, running, reading>>

\* skipAndConvert(sanOut.patch): the sanitizer run on its own result
SanitizeAgain ==
    /\ sanOut.status = "ok"
    /\ sanAgain = NoSan
    /\ sanAgain' = skipAndConvert(sanOut.patch)
    /\ UNCHANGED <<users, events, global, mutations, resp, sanIn, sanOut, running, reading>>

NextSan == Sanitize \/ SanitizeAgain

SpecSan == InitSan /\ [][NextSan]_vars

\* ------------------------------------------------------------ properties
Called == resp.handler = "getPatched"

\* every event so far records a change of the stored entity x
OnlyEntity(x) == \A i \in 1..Len(mutations) : mutations[i].id = x /\ ~mutations[i].old.nil

\* no event so far changed the bag
BagUntouched == \A i \in 1..Len(mutations) : mutations[i].old.u.Bag = mutations[i].new.u.Bag

\* a path that is /bag or lies below /bag, by segments
UnderBag(path) ==
    \/ path = TopPath("bag")
    \/ /\ Len(path) > Len(TopPath("bag"))
       /\ SubSeq(path, 1, Len(TopPath("bag")) + 1) = TopPath("bag") \o <<"/">>

TouchesBag(p) == \E i \in 1..Len(p) : UnderBag(p[i].path)

\* C1: after updates of one entity that leave the bag alone, a rollback to
\* any event k of the log succeeds and returns the state just before event k
C1_RollbackReturnsPreState ==
    (/\ Called
     /\ resp.patchType = RollbackType
     /\ OnlyEntity(resp.entityID)
     /\ BagUntouched
     /\ resp.eventID \in 1..Len(events))
    => (resp.status = "ok" /\ resp.user = mutations[resp.eventID].old)

\* C2: getEvents(id) is the events with identifier >= id, in log order, for
\* every id of the log, and an error for an id beyond the log or an empty log
C2_RangeFrom ==
    \A id \in 1..(MaxEvents + 1) :
        IF id <= Len(events)
        THEN /\ getEvents(id).status = "ok"
             /\ getEvents(id).events = SelectSeq(events, LAMBDA e : e.ID >= id)
             /\ Len(getEvents(id).events) = Len(events) - id + 1
        ELSE getEvents(id).status = "err"

\* C3: the event at position i of the log has identifier i
C3_IdsArePositions == \A i \in 1..Len(events) : events[i].ID = i

C3_Witness == Len(events) >= 2 /\ events[2].ID = 2 /\ resp.handler = "updateUser"

\* C4: getPatched of an existing entity with an eventId above the number of
\* stored events ends with an error and no entity, not with a panic
C4_BeyondLogIsError ==
    (Called /\ resp.entityID \in DOMAIN users /\ resp.eventID > Len(events))
    => (resp.status = "err" /\ resp.user.nil)

C4_Witness ==
    /\ Called
    /\ resp.entityID \in DOMAIN users
    /\ Len(events) >= 1
    /\ resp.eventID = Len(events) + 1
    /\ resp.status = "err"

\* C5: the bag of the entity a successful getPatched returns is the bag of
\* the stored entity
C5_BagIsCurrentBag ==
    (Called /\ resp.status = "ok") => resp.user.u.Bag = users[resp.entityID].Bag

\* a successful replay over an event that changed the bag
C5_Witness ==
    /\ Called
    /\ resp.status = "ok"
    /\ \E i \in 1..Len(resp.visited) :
          /\ TouchesBag(events[resp.visited[i]].Rollback)
          /\ mutations[resp.visited[i]].old.u.Bag # users[resp.entityID].Bag

C7_ForwardAscending ==
    (Called /\ resp.patchType = UpdateType)
    => \A i, j \in 1..Len(resp.visited) : i < j => resp.visited[i] < resp.visited[j]

\* C8: a forward replay starts from the snapshot of the entity as of eventId
\* (the state event eventId left, or the state it found), not from the
\* serialized current entity
C8_ForwardStartsFromSnapshot ==
    (/\ Called
     /\ resp.patchType = UpdateType
     /\ OnlyEntity(resp.entityID)
     /\ resp.eventID \in 1..Len(events)
     /\ resp.visited # <<>>)
    => resp.start \in {Marshal(mutations[resp.eventID].old), Marshal(mutations[resp.eventID].new)}

\* C9: the Update patch of every event takes the serialized pre-state to the
\* serialized post-state, and its Rollback patch takes it back
C9_RoundTrip ==
    \A i \in 1..Len(events) :
        /\ applyPatch(Marshal(mutations[i].old), events[i].Update) = Done(Marshal(mutations[i].new))
        /\ applyPatch(Marshal(mutations[i].new), events[i].Rollback) = Done(Marshal(mutations[i].old))

\* C10: skipAndConvert returns the operations of its input that are neither
\* /bag nor below /bag/, in their order (stated for the patches all of whose
\* paths are long enough to be sliced)
C10_SanitizerIsSegmentFilter ==
    (sanOut # NoSan /\ \A i \in 1..Len(sanIn) : Len(sanIn[i].path) >= Len(TopPath("bag")))
    => (sanOut.status = "ok" /\ sanOut.patch = SelectSeq(sanIn, LAMBDA o : ~UnderBag(o.path)))

\* C11: a getPatched whose fold fails at some event returns an error and no
\* entity, and leaves the store and the log as they were
C11_FailedFoldReturnsNil ==
    [][(resp'.handler = "getPatched" /\ resp'.status = "err" /\ resp'.visited # <<>>)
       => (resp'.user.nil /\ users' = users /\ events' = events)]_vars

\* the fold failed at its second event, after a patch that changed the value
C11_Witness ==
    /\ Called
    /\ resp.status = "err"
    /\ Len(resp.visited) = 2
    /\ Len(resp.applied) = 1
    /\ resp.applied[1] # <<>>
    /\ resp.user.nil

\* C12: the log of every state is a prefix of the log of the next state
C12_AppendOnly ==
    [][Len(events') >= Len(events) /\ SubSeq(events', 1, Len(events)) = events]_vars

\* reads of every kind followed appends
C12_Witness == Len(events) >= 2 /\ resp.handler = "getEventsList" /\ resp.status = "ok"

\* C15: for a filter that parses, getEventsList returns the events of the log
\* created at or after it, in log order, and leaves the log as it was
C15_ListIsAtOrAfter ==
    [][(resp'.handler = "getEventsList" /\ resp'.status = "ok")
       => (/\ resp'.list = SelectSeq(events, LAMBDA e : e.CreatedAt >= resp'.filter)
           /\ events' = events)]_vars

\* a list that holds some of the events and not all of them
C15_Witness ==
    /\ resp.handler = "getEventsList"
    /\ resp.status = "ok"
    /\ Len(resp.list) >= 1
    /\ Len(resp.list) < Len(events)

\* C16: an earlier event of the log is not stamped after a later one
C16_CreatedAtMonotonic ==
    \A i, j \in 1..Len(events) : i < j => events[i].CreatedAt <= events[j].CreatedAt

\* the clock moved between two appends
C16_Witness == \E i, j \in 1..Len(events) : i < j /\ events[i].CreatedAt < events[j].CreatedAt

\* the updateUser calls that returned
Returned == {p \in Procs : running[p].pc = "done"}

\* C13: when the updateUser calls that ran side by side have all returned,
\* the log holds one event per call and the event at position i has id i
C13_ConcurrentIdsGapFree ==
    (\A p \in Procs : running[p].pc \in {"idle", "done"})
    => (/\ Len(events) = Cardinality(Returned)
        /\ \A i \in 1..Len(events) : events[i].ID = i)

\* C14: a getPatched that ran beside one updateUser read the log holding
\* exactly the events of the store writes its base entity reflects
C14_ConsistentSnapshot ==
    (/\ reading.pc = "done"
     /\ ~reading.u.nil
     /\ Cardinality({p \in Procs : running[p].pc # "idle"}) <= 1)
    => reading.stores = reading.logged

\* C17: skipAndConvert run on its own result returns that result
C17_SanitizerIdempotent == sanAgain # NoSan => sanAgain = sanOut

\* the first run dropped an operation and kept another
C17_Witness ==
    /\ sanAgain # NoSan
    /\ Len(sanOut.patch) >= 1
    /\ Len(sanOut.patch) < Len(sanIn)

\* C18: getPatched of a stored entity over a chain of recorded events, the
\* event of a creation among them, ends with an entity or an error
C18_ExclusionCheckDefined ==
    (Called /\ resp.entityID \in DOMAIN users /\ resp.eventID \in 0..(Len(events) - 1))
    => resp.status \in {"ok", "err"}

\* C19: getPatched of a stored entity with a negative eventId ends with an error
C19_NegativeIdIsError ==
    (Called /\ resp.entityID \in DOMAIN users /\ resp.eventID < 0)
    => resp.status = "err"

\* the events of chain that recorded mutations of entity x
OwnEvents(chain, x) == SelectSeq(chain, LAMBDA e : mutations[e.ID].id = x)

\* the rollback of entity x over its own events of chain only
OwnRollback(call, chain, x) ==
    IF OwnEvents(chain, x) = <<>> THEN [call EXCEPT !.status = "ok", !.user = getUser(x)]
    ELSE Chained(call, RollbackType, OwnEvents(chain, x), Marshal(getUser(x)))

\* C20: a rollback of a stored entity X over a chain without creation events
\* ends as the rollback over the events of X in that chain ends, with the
\* same entity
C20_OnlyOwnEvents ==
    (/\ Called
     /\ resp.patchType = RollbackType
     /\ resp.entityID \in DOMAIN users
     /\ resp.eventID \in 0..(Len(events) - 1)
     /\ \A i \in (resp.eventID + 1)..Len(events) : ~mutations[i].old.nil)
    => (/\ resp.status = OwnRollback(resp, getEvents(resp.eventID).events, resp.entityID).status
        /\ resp.user = OwnRollback(resp, getEvents(resp.eventID).events, resp.entityID).user)

====
